---- MODULE Spec2Model ----
(***************************************************************************)
(* doc-comment-extractor: the annotation-range extraction and position     *)
(* reconciliation of src/comment_extractor.py (CommentExtractor), with the *)
(* legacy section locator of src/main.py beside it.                        *)
(*                                                                         *)
(* Text is a sequence of one-character strings; Python offsets are         *)
(* 0-based, so text[a:b] is Slice(text, a, b).  A document is the sequence *)
(* of elements doc_root.iter() yields; the walk consumes one element per   *)
(* step and `doc` holds the elements consumed so far.                      *)
(***************************************************************************)
EXTENDS Integers, Sequences, FiniteSets, TLC

VARIABLES
    pc,                   \* position in extract_comments_from_docx
    doc,                  \* elements of doc_root.iter() consumed so far
    current_range_ids,    \* _extract_highlight_ranges: list of open ids
    comment_id_to_range,  \* _extract_highlight_ranges: dict id -> HighlightRange
    full_text,            \* _extract_highlight_ranges: flattened text
    is_first_paragraph,   \* _extract_highlight_ranges: flag
    fb_tokens,            \* ExtractConfig.fb_start_token / fb_end_token
    fb_section,           \* Section located in full_text (comment_extractor.py)
    legacy_section,       \* Section or None located by main.py's locator
    comments_extend_root, \* word/commentsExtended.xml: None or list of commentEx
    sub_comments,         \* _get_sub_comments result
    comments_root,        \* word/comments.xml: None or w:comment nodes iterated so far
    comments,             \* _extract_comments: output list
    program,              \* "comment_extractor" or the monolith "main"
    archive,              \* what opening and parsing the .docx file does
    has_document,         \* word/document.xml is in the archive (doc_root)
    result,               \* process_document: the dict it returns
    files_left,           \* process_folder: .docx files not yet reached
    failed_before,        \* process_folder: an earlier file had a bad archive
    json_data,            \* the record handed to a formatter
    formatter,            \* FormatterFactory.get_formatter outcome
    output                \* what the formatter's format returned

\* extract_comments_from_docx and the functions below it
extractVars == << pc, doc, current_range_ids, comment_id_to_range, full_text,
                  is_first_paragraph, fb_tokens, fb_section, legacy_section,
                  comments_extend_root, sub_comments, comments_root,
                  comments >>

\* process_document and process_folder
documentVars == << program, archive, has_document, result, files_left,
                   failed_before >>

\* the formatters
formatVars == << json_data, formatter, output >>

vars == << extractVars, documentVars, formatVars >>

-----------------------------------------------------------------------------
(* Bounds of the model.                                                    *)

\* elements of a document in the end-to-end specification
MaxDocNodes == 3
\* elements of a document in the tree-walk specification
MaxWalkNodes == 4
\* characters of the text in the section-locator specification
MaxTextLen == 4
\* elements of a document in the process_document specification
MaxFileNodes == 3
\* .docx files of the input folder in the process_document specification
MaxFiles == 2
\* characters of the text in the formatter specification
MaxFormatLen == 2

\* Python's None; no character of any alphabet is "None"
None == << "None" >>

\* annotation ids that occur in documents and in the annotations payload
CommentIds == {1, 2}

-----------------------------------------------------------------------------
(* Python string primitives.                                               *)

\* str.isspace() of the characters the model uses
IsSpace(c) == c \in {" ", "\n", "\t"}

Min(S) == CHOOSE x \in S : \A y \in S : x <= y

\* text[a:b] for 0 <= a: the end is clamped to len(text)
Slice(text, a, b) ==
    LET hi == IF b > Len(text) THEN Len(text) ELSE b
    IN  IF a >= hi THEN << >> ELSE SubSeq(text, a + 1, hi)

\* text.find(sub, start): lowest index >= start where sub occurs, or -1
Find(text, sub, start) ==
    LET cands == { i \in start .. (Len(text) - Len(sub)) :
                       SubSeq(text, i + 1, i + Len(sub)) = sub }
    IN  IF cands = {} THEN -1 ELSE Min(cands)

RECURSIVE lstrip(_)
lstrip(s) ==
    IF s = << >> THEN << >>
    ELSE IF IsSpace(Head(s)) THEN lstrip(Tail(s)) ELSE s

RECURSIVE rstrip(_)
rstrip(s) ==
    IF s = << >> THEN << >>
    ELSE IF IsSpace(s[Len(s)]) THEN rstrip(SubSeq(s, 1, Len(s) - 1)) ELSE s

\* "".join(texts)
RECURSIVE Join(_)
Join(texts) ==
    IF texts = << >> THEN << >> ELSE Head(texts) \o Join(Tail(texts))

-----------------------------------------------------------------------------
(* Section and the boundary-section locator.                               *)

Section(start, end, raw_text, stripped_text) ==
    [ start |-> start, end |-> end,
      raw_text |-> raw_text, stripped_text |-> stripped_text ]

\* the index just past the first start token, or 0
ResolveStart(text, start_token) ==
    IF start_token = None THEN 0
    ELSE LET start_token_pos == Find(text, start_token, 0)
         IN  IF start_token_pos < 0 THEN 0
             ELSE start_token_pos + Len(start_token)

\* a locator that looks for the end token from the beginning of the text
ResolveEndFromTextStart(text, end_token, start_idx) ==
    IF end_token = None THEN Len(text)
    ELSE LET end_token_pos == Find(text, end_token, 0)
         IN  IF end_token_pos < 0 THEN Len(text) ELSE end_token_pos

\* the first end token at or after start_idx, or len(text)
ResolveEnd(text, end_token, start_idx) ==
    IF end_token = None THEN Len(text)
    ELSE LET end_token_pos == Find(text, end_token, start_idx)
         IN  IF end_token_pos < 0 THEN Len(text) ELSE end_token_pos

\* a locator that counts the trailing blanks on the untrimmed slice
TrimSectionTrailingOfRaw(text, start_idx, end_idx) ==
    LET raw_text == Slice(text, start_idx, end_idx)
        lstripped_text == lstrip(raw_text)
        stripped_text == rstrip(lstripped_text)
        blank_chars_before_start_token == Len(raw_text) - Len(lstripped_text)
        blank_chars_before_end_token == Len(raw_text) - Len(rstrip(raw_text))
    IN  Section(start_idx + blank_chars_before_start_token,
                end_idx - blank_chars_before_end_token,
                raw_text, stripped_text)

\* the trimmed Section of text[start_idx:end_idx]
TrimSection(text, start_idx, end_idx) ==
    LET raw_text == Slice(text, start_idx, end_idx)
        lstripped_text == lstrip(raw_text)
        stripped_text == rstrip(lstripped_text)
        blank_chars_before_start_token == Len(raw_text) - Len(lstripped_text)
        blank_chars_before_end_token == Len(lstripped_text) - Len(stripped_text)
    IN  Section(start_idx + blank_chars_before_start_token,
                end_idx - blank_chars_before_end_token,
                raw_text, stripped_text)

extract_text_between_tokens(text, start_token, end_token) ==
    LET start_idx == ResolveStart(text, start_token)
        end_idx == ResolveEnd(text, end_token, start_idx)
    IN  TrimSection(text, start_idx, end_idx)

\* Python None in a slot that holds a Section (no Section has start < 0)
NoSection == Section(-1, -1, << >>, << >>)

\* src/main.py: text.index raises ValueError where find returns -1, and the
\* except clause turns it into None
legacy_extract_text_between_tokens(text, start_token, end_token) ==
    LET start_token_pos == Find(text, start_token, 0)
        start_idx == start_token_pos + Len(start_token)
        end_idx == Find(text, end_token, start_idx)
    IN  IF start_token_pos < 0 THEN NoSection
        ELSE IF end_idx < 0 THEN NoSection
        ELSE TrimSection(text, start_idx, end_idx)

-----------------------------------------------------------------------------
(* The document tree and the tree walk (_extract_highlight_ranges).        *)

Elem(tag, id, text) == [ tag |-> tag, id |-> id, text |-> text ]

RangeStart(id) == Elem("commentRangeStart", id, << >>)
RangeEnd(id) == Elem("commentRangeEnd", id, << >>)
TextRun(text) == Elem("t", 0, text)
Paragraph == Elem("p", 0, << >>)
LineBreak == Elem("br", 0, << >>)
Run == Elem("r", 0, << >>)

new_line == << "\n" >>

HighlightRange(comment_id, absolute_start) ==
    [ comment_id |-> comment_id, absolute_start |-> absolute_start,
      section_start |-> 0, texts |-> << >> ]

get_text(hr) == Join(hr.texts)

get_relative_start(hr) == hr.absolute_start - hr.section_start

\* dict assignment d[k] = v
DictPut(d, k, v) == [ i \in DOMAIN d \cup {k} |-> IF i = k THEN v ELSE d[i] ]

\* list.remove(x): drops the first occurrence of x (x is in the list)
RECURSIVE ListRemove(_, _)
ListRemove(list, x) ==
    IF Head(list) = x THEN Tail(list)
    ELSE << Head(list) >> \o ListRemove(Tail(list), x)

InList(x, list) == \E i \in 1 .. Len(list) : list[i] = x

\* a walk in which only the most recently opened range receives the text
AppendToInnermostOnly(ranges, ids, text) ==
    IF ids = << >> THEN ranges
    ELSE [ ranges EXCEPT ![ids[Len(ids)]].texts = Append(@, text) ]

\* for comment_id in ids: comment_id_to_range[comment_id].append(text)
RECURSIVE AppendToRanges(_, _, _)
AppendToRanges(ranges, ids, text) ==
    IF ids = << >> THEN ranges
    ELSE LET hr == ranges[Head(ids)]
             appended == [ hr EXCEPT !.texts = Append(@, text) ]
         IN  AppendToRanges([ ranges EXCEPT ![Head(ids)] = appended ],
                            Tail(ids), text)

\* append text to the flattened text and to every open range
AppendText(text) ==
    /\ full_text' = full_text \o text
    /\ comment_id_to_range' =
           AppendToRanges(comment_id_to_range, current_range_ids, text)

OnRangeStart(elem) ==
    /\ current_range_ids' = Append(current_range_ids, elem.id)
    /\ comment_id_to_range' =
           DictPut(comment_id_to_range, elem.id,
                   HighlightRange(elem.id, Len(full_text)))
    /\ UNCHANGED << pc, full_text, is_first_paragraph >>

\* list.remove raises ValueError when the id is in the dict but no longer open
OnRangeEnd(elem) ==
    /\ IF elem.id \in DOMAIN comment_id_to_range
       THEN IF InList(elem.id, current_range_ids)
            THEN /\ current_range_ids' = ListRemove(current_range_ids, elem.id)
                 /\ pc' = pc
            ELSE /\ pc' = "ValueError"
                 /\ UNCHANGED current_range_ids
       ELSE UNCHANGED << pc, current_range_ids >>
    /\ UNCHANGED << comment_id_to_range, full_text, is_first_paragraph >>

OnText(elem) ==
    /\ IF elem.text # << >>
       THEN AppendText(elem.text)
       ELSE UNCHANGED << full_text, comment_id_to_range >>
    /\ UNCHANGED << pc, current_range_ids, is_first_paragraph >>

\* a walk that separates at every paragraph, the first included
OnParagraphAlwaysSeparates(elem) ==
    /\ AppendText(new_line)
    /\ is_first_paragraph' = FALSE
    /\ UNCHANGED << pc, current_range_ids >>

\* a walk whose later paragraphs separate the flattened text only
OnParagraphSeparatesTextOnly(elem) ==
    /\ IF is_first_paragraph
       THEN /\ is_first_paragraph' = FALSE
            /\ UNCHANGED << full_text, comment_id_to_range >>
       ELSE /\ full_text' = full_text \o new_line
            /\ UNCHANGED << is_first_paragraph, comment_id_to_range >>
    /\ UNCHANGED << pc, current_range_ids >>

OnParagraph(elem) ==
    /\ IF is_first_paragraph
       THEN /\ is_first_paragraph' = FALSE
            /\ UNCHANGED << full_text, comment_id_to_range >>
       ELSE /\ AppendText(new_line)
            /\ UNCHANGED is_first_paragraph
    /\ UNCHANGED << pc, current_range_ids >>

OnLineBreak(elem) ==
    /\ AppendText(new_line)
    /\ UNCHANGED << pc, current_range_ids, is_first_paragraph >>

OnOther(elem) ==
    UNCHANGED << pc, current_range_ids, comment_id_to_range, full_text,
                 is_first_paragraph >>

\* one iteration of `for elem in doc_root.iter()`
WalkElem(elem) ==
    /\ pc = "walk"
    /\ doc' = Append(doc, elem)
    /\ CASE elem.tag = "commentRangeStart" -> OnRangeStart(elem)
         [] elem.tag = "commentRangeEnd" -> OnRangeEnd(elem)
         [] elem.tag = "t" -> OnText(elem)
         [] elem.tag = "p" -> OnParagraph(elem)
         [] elem.tag = "br" -> OnLineBreak(elem)
         [] OTHER -> OnOther(elem)
    /\ UNCHANGED << fb_tokens, fb_section, legacy_section,
                    comments_extend_root, sub_comments, comments_root,
                    comments >>
    /\ UNCHANGED << documentVars, formatVars >>

\* the iteration is exhausted: return comment_id_to_range, full_text
WalkReturn ==
    /\ pc = "walk"
    /\ pc' = "locate"
    /\ UNCHANGED << doc, current_range_ids, comment_id_to_range, full_text,
                    is_first_paragraph, fb_tokens, fb_section, legacy_section,
                    comments_extend_root, sub_comments, comments_root,
                    comments >>
    /\ UNCHANGED << documentVars, formatVars >>

-----------------------------------------------------------------------------
(* The payloads read from the archive (_read_xml_files).                   *)

\* a payload whose path is absent from the archive: the root is None
NoRoot == [ present |-> FALSE, nodes |-> << >> ]
Root(nodes) == [ present |-> TRUE, nodes |-> nodes ]

\* elem.get(attr) of an attribute the element does not carry
NoAttr == "None"

\* w15:commentEx
CommentEx(paraId, paraIdParent) ==
    [ paraId |-> paraId, paraIdParent |-> paraIdParent ]

\* w:comment: id, whether it holds a w:p, that paragraph's w14:paraId, and
\* the contents of its w:t descendants
CommentNode(id, has_para, paraId, texts) ==
    [ id |-> id, has_para |-> has_para, paraId |-> paraId, texts |-> texts ]

-----------------------------------------------------------------------------
(* Reply filter (_get_sub_comments).                                       *)

RECURSIVE SubCommentsOf(_, _)
SubCommentsOf(nodes, sub) ==
    IF nodes = << >> THEN sub
    ELSE LET comment_ex == Head(nodes)
         IN  IF comment_ex.paraIdParent # NoAttr
             THEN SubCommentsOf(Tail(nodes), sub \cup {comment_ex.paraId})
             ELSE SubCommentsOf(Tail(nodes), sub)

\* a filter that collects the parents of the replies, not the replies
RECURSIVE ParentsOf(_, _)
ParentsOf(nodes, sub) ==
    IF nodes = << >> THEN sub
    ELSE LET comment_ex == Head(nodes)
         IN  IF comment_ex.paraIdParent # NoAttr
             THEN ParentsOf(Tail(nodes), sub \cup {comment_ex.paraIdParent})
             ELSE ParentsOf(Tail(nodes), sub)

GetParentsOfReplies(root) ==
    IF ~root.present THEN {} ELSE ParentsOf(root.nodes, {})

_get_sub_comments(root) ==
    IF ~root.present THEN {} ELSE SubCommentsOf(root.nodes, {})

-----------------------------------------------------------------------------
(* Reconciler (_extract_comments).                                         *)

\* " ".join(texts)
RECURSIVE JoinSpace(_)
JoinSpace(texts) ==
    IF texts = << >> THEN << >>
    ELSE IF Len(texts) = 1 THEN Head(texts)
    ELSE Head(texts) \o << " " >> \o JoinSpace(Tail(texts))

\* the non-empty w:t contents of the comment, joined by a space
_extract_comment_text(comment_node) ==
    JoinSpace(SelectSeq(comment_node.texts, LAMBDA t : t # << >>))

\* Comment(...).get_dict() with include_author and include_date off
Comment(id, comment_text, highlighted_text, start, end) ==
    [ id |-> id, start |-> start, end |-> end,
      highlighted_text |-> highlighted_text, data |-> comment_text ]

\* a skip test that lets every bound range through
NeverBeforeSection(pos) == FALSE

\* if pos < 0: "Comment appears before start token"
BeforeSection(pos) == pos < 0

\* highlighted_range.section_start = section_start
BindRange(ranges, id, section_start) ==
    [ ranges EXCEPT ![id].section_start = section_start ]

\* a Comment whose end is the offset of its last character
BuildCommentInclusiveEnd(comment_node, highlighted_range, pos) ==
    Comment(comment_node.id, _extract_comment_text(comment_node),
            get_text(highlighted_range), pos,
            pos + Len(get_text(highlighted_range)) - 1)

\* the Comment built from a bound range at relative start pos
BuildComment(comment_node, highlighted_range, pos) ==
    Comment(comment_node.id, _extract_comment_text(comment_node),
            get_text(highlighted_range), pos,
            pos + Len(get_text(highlighted_range)))

\* the dict and the output list as one loop iteration leaves them
LoopState(ranges, out) == [ ranges |-> ranges, comments |-> out ]

\* an iteration that keeps the output list ordered by start offset
ProcessRangeOrderedByStart(comment_node, ranges, section_start, out) ==
    LET bound == BindRange(ranges, comment_node.id, section_start)
        highlighted_range == bound[comment_node.id]
        pos == get_relative_start(highlighted_range)
        c == BuildComment(comment_node, highlighted_range, pos)
        before == SelectSeq(out, LAMBDA o : o.start <= pos)
        after == SelectSeq(out, LAMBDA o : o.start > pos)
    IN  IF BeforeSection(pos) THEN LoopState(bound, out)
        ELSE LoopState(bound, before \o << c >> \o after)

\* the iteration once the range of the comment is found
ProcessRange(comment_node, ranges, section_start, out) ==
    LET bound == BindRange(ranges, comment_node.id, section_start)
        highlighted_range == bound[comment_node.id]
        pos == get_relative_start(highlighted_range)
    IN  IF BeforeSection(pos) THEN LoopState(bound, out)
        ELSE LoopState(bound,
                       Append(out, BuildComment(comment_node,
                                                highlighted_range, pos)))

\* a loop body whose range lookup raises on an id without a range: the
\* list built so far is lost with the exception
ProcessCommentOrphanRaises(comment_node, ranges, section_start, sub, out) ==
    IF ~comment_node.has_para THEN LoopState(ranges, out)
    ELSE IF comment_node.paraId \in sub THEN LoopState(ranges, out)
    ELSE IF comment_node.id \notin DOMAIN ranges THEN LoopState(ranges, << >>)
    ELSE ProcessRange(comment_node, ranges, section_start, out)

\* the body of `for comment_node in comments_root.findall(...)`
ProcessComment(comment_node, ranges, section_start, sub, out) ==
    IF ~comment_node.has_para THEN LoopState(ranges, out)
    ELSE IF comment_node.paraId \in sub THEN LoopState(ranges, out)
    ELSE IF comment_node.id \notin DOMAIN ranges THEN LoopState(ranges, out)
    ELSE ProcessRange(comment_node, ranges, section_start, out)

-----------------------------------------------------------------------------
(* Inputs.                                                                 *)

\* elements of the documents of the end-to-end specification
DocElems ==
    { RangeStart(1), RangeStart(2), RangeEnd(1), LineBreak,
      TextRun(<< "a" >>), TextRun(<< "<" >>), TextRun(<< ">" >>) }

\* elements of the documents of the tree-walk specification
WalkElems ==
    { RangeStart(id) : id \in CommentIds } \cup
    { RangeEnd(id) : id \in CommentIds } \cup
    { TextRun(<< >>), TextRun(<< "a" >>), TextRun(<< "b", "c" >>),
      Paragraph, LineBreak, Run }

\* fb_start_token, fb_end_token of the end-to-end specification
DocTokens == { << None, None >>, << << "<" >>, << ">" >> >> }

\* the extended-metadata payloads: absent, or P1 without and P2 with a parent
ExtendRoots ==
    { NoRoot,
      Root(<< CommentEx("P1", NoAttr), CommentEx("P2", "P1") >>) }

\* the w:t contents of the comment with the given id
BodyOf(id) == IF id = 1 THEN << << "x" >> >> ELSE << << "y" >>, << >>, << "z" >> >>

\* the w:comment nodes of the annotations payload
CommentNodes ==
    { CommentNode(id, FALSE, NoAttr, BodyOf(id)) : id \in CommentIds } \cup
    { CommentNode(id, TRUE, p, BodyOf(id)) :
          id \in CommentIds, p \in { "P1", "P2" } }

\* elements and w:comment nodes of the documents of the process_document
\* specification: comment 1 on its own or as a reply, comment 2 without range
FileElems ==
    { RangeStart(1), RangeEnd(1), TextRun(<< "<" >>),
      TextRun(<< "a", ">" >>), TextRun(<< ">" >>) }

FileCommentNodes ==
    { CommentNode(1, TRUE, "P1", BodyOf(1)),
      CommentNode(1, TRUE, "P2", BodyOf(1)),
      CommentNode(2, TRUE, "P1", BodyOf(2)) }

\* characters and tokens of the section-locator specification
LocateChars == { "a", " ", "<", ">" }
LocateTokens == { None, << "<" >>, << ">" >>, << "<", ">" >> }

\* all texts over LocateChars of exactly n characters
RECURSIVE TextsOfLen(_)
TextsOfLen(n) ==
    IF n = 0 THEN { << >> }
    ELSE { Append(t, c) : t \in TextsOfLen(n - 1), c \in LocateChars }

-----------------------------------------------------------------------------
(* extract_comments_from_docx, step by step.                               *)

\* fb_section = self.extract_text_between_tokens(full_text, ...)
LocateSection ==
    /\ pc = "locate"
    /\ fb_section' =
           extract_text_between_tokens(full_text, fb_tokens[1], fb_tokens[2])
    /\ pc' = "replies"
    /\ UNCHANGED << doc, current_range_ids, comment_id_to_range, full_text,
                    is_first_paragraph, fb_tokens, legacy_section,
                    comments_extend_root, sub_comments, comments_root,
                    comments >>
    /\ UNCHANGED << documentVars, formatVars >>

\* src/main.py: section = self.extract_text_between_tokens(full_text)
LegacyLocateSection ==
    /\ pc = "locate"
    /\ fb_tokens[1] # None
    /\ fb_tokens[2] # None
    /\ legacy_section' =
           legacy_extract_text_between_tokens(full_text, fb_tokens[1],
                                              fb_tokens[2])
    /\ pc' = "legacy_located"
    /\ UNCHANGED << doc, current_range_ids, comment_id_to_range, full_text,
                    is_first_paragraph, fb_tokens, fb_section,
                    comments_extend_root, sub_comments, comments_root,
                    comments >>
    /\ UNCHANGED << documentVars, formatVars >>

\* sub_comments = self._get_sub_comments(comments_extend_root)
GetSubComments ==
    /\ pc = "replies"
    /\ sub_comments' = _get_sub_comments(comments_extend_root)
    /\ pc' = "comments"
    /\ UNCHANGED << doc, current_range_ids, comment_id_to_range, full_text,
                    is_first_paragraph, fb_tokens, fb_section, legacy_section,
                    comments_extend_root, comments_root, comments >>
    /\ UNCHANGED << documentVars, formatVars >>

\* if comments_root is None: "Skip document. No comments found"
SkipDocument ==
    /\ pc = "comments"
    /\ ~comments_root.present
    /\ comments' = << >>
    /\ pc' = "done"
    /\ UNCHANGED << doc, current_range_ids, comment_id_to_range, full_text,
                    is_first_paragraph, fb_tokens, fb_section, legacy_section,
                    comments_extend_root, sub_comments, comments_root >>
    /\ UNCHANGED << documentVars, formatVars >>

\* one iteration of `for comment_node in comments_root.findall(...)`
ExtractComment(comment_node) ==
    /\ pc = "comments"
    /\ comments_root.present
    /\ \A i \in 1 .. Len(comments_root.nodes) :
           comments_root.nodes[i].id # comment_node.id
    /\ comments_root' = Root(Append(comments_root.nodes, comment_node))
    /\ LET after == ProcessComment(comment_node, comment_id_to_range,
                                   fb_section.start, sub_comments, comments)
       IN  /\ comment_id_to_range' = after.ranges
           /\ comments' = after.comments
    /\ UNCHANGED << pc, doc, current_range_ids, full_text, is_first_paragraph,
                    fb_tokens, fb_section, legacy_section,
                    comments_extend_root, sub_comments >>
    /\ UNCHANGED << documentVars, formatVars >>

\* the loop is exhausted: return comments
ReturnComments ==
    /\ pc = "comments"
    /\ comments_root.present
    /\ pc' = "done"
    /\ UNCHANGED << doc, current_range_ids, comment_id_to_range, full_text,
                    is_first_paragraph, fb_tokens, fb_section, legacy_section,
                    comments_extend_root, sub_comments, comments_root,
                    comments >>
    /\ UNCHANGED << documentVars, formatVars >>

-----------------------------------------------------------------------------
(* The formatters: src/formatters and json_to_html of src/main.py.         *)

\* what a call gave back: the string returned, or the exception raised
Returns(text) == [ raised |-> "None", text |-> text ]
Raises(exception) == [ raised |-> exception, text |-> << >> ]

\* text.replace(old, new) for a non-empty old
RECURSIVE replace(_, _, _)
replace(text, old, new) ==
    IF Len(text) < Len(old) THEN text
    ELSE IF SubSeq(text, 1, Len(old)) = old
         THEN new \o replace(SubSeq(text, Len(old) + 1, Len(text)), old, new)
         ELSE << Head(text) >> \o replace(Tail(text), old, new)

\* the decimal digits, and str(n) of a non-negative int
DigitChars == << "0", "1", "2", "3", "4", "5", "6", "7", "8", "9" >>

RECURSIVE str(_)
str(n) ==
    IF n < 10 THEN << DigitChars[n + 1] >>
    ELSE str(n \div 10) \o << DigitChars[(n % 10) + 1] >>

\* the entity strings of _escape_xml
amp ==
    << "&", "a", "m", "p", ";" >>
lt ==
    << "&", "l", "t", ";" >>
gt ==
    << "&", "g", "t", ";" >>
quot ==
    << "&", "q", "u", "o", "t", ";" >>
apos ==
    << "&", "a", "p", "o", "s", ";" >>

\* an escape that replaces the ampersand last, after the entities are in
EscapeAmpersandLast(text) ==
    IF text = None THEN << >>
    ELSE replace(replace(replace(replace(replace(text,
             << "<" >>, lt), << ">" >>, gt), << "\"" >>, quot),
             << "'" >>, apos), << "&" >>, amp)

\* XmlFormatter._escape_xml: "" for None, else the five replacements in order
_escape_xml(text) ==
    IF text = None THEN << >>
    ELSE replace(replace(replace(replace(replace(text,
             << "&" >>, amp), << "<" >>, lt), << ">" >>, gt),
             << "\"" >>, quot), << "'" >>, apos)

\* the literal parts of the two f-strings of XmlFormatter.format
comment_start_open ==
    << "<", "c", "o", "m", "m", "e", "n", "t", "-", "s", "t", "a", "r", "t",
       " ", "i", "d", "=", "\"" >>
comment_start_data ==
    << "\"", " ", "d", "a", "t", "a", "=", "\"" >>
comment_end_open ==
    << "<", "c", "o", "m", "m", "e", "n", "t", "-", "e", "n", "d", " ", "i",
       "d", "=", "\"" >>
marker_close ==
    << "\"", "/", ">" >>

\* f'<comment-start id="{comment_id}" data="{self._escape_xml(comment_text)}"/>'
CommentStartTag(comment_id, comment_text) ==
    comment_start_open \o str(comment_id) \o comment_start_data
        \o _escape_xml(comment_text) \o marker_close

\* f'<comment-end id="{comment_id}"/>'
CommentEndTag(comment_id) ==
    comment_end_open \o str(comment_id) \o marker_close

\* one entry of positions: (offset, "start" or "end", index, body or None)
Position(pos, tag_type, comment_id, comment_text) ==
    [ pos |-> pos, tag_type |-> tag_type, comment_id |-> comment_id,
      comment_text |-> comment_text ]

\* the list built by `for i, comment in enumerate(comments)`, from index i on
RECURSIVE Positions(_, _)
Positions(comment_list, i) ==
    IF i > Len(comment_list) THEN << >>
    ELSE << Position(comment_list[i].start, "start", i - 1,
                     comment_list[i].data),
            Position(comment_list[i]["end"], "end", i - 1, None) >>
         \o Positions(comment_list, i + 1)

\* a sort key that puts the start tags first at equal offsets
StartFirstKey(p) == << p.pos, IF p.tag_type = "start" THEN 0 ELSE 1 >>

\* key=lambda x: (x[0], 0 if x[1] == "end" else 1)
SortKey(p) == << p.pos, IF p.tag_type = "end" THEN 0 ELSE 1 >>

\* tuple comparison of two sort keys
KeyLess(k1, k2) == k1[1] < k2[1] \/ (k1[1] = k2[1] /\ k1[2] < k2[2])

\* list.sort is stable: p goes in front of the first entry with a greater key
InsertSorted(sorted, p) ==
    LET later == { j \in 1 .. Len(sorted) :
                       KeyLess(SortKey(p), SortKey(sorted[j])) }
        at == IF later = {} THEN Len(sorted) + 1 ELSE Min(later)
    IN  SubSeq(sorted, 1, at - 1) \o << p >>
            \o SubSeq(sorted, at, Len(sorted))

\* positions.sort(key=...)
RECURSIVE SortPositions(_)
SortPositions(positions) ==
    IF positions = << >> THEN << >>
    ELSE InsertSorted(
             SortPositions(SubSeq(positions, 1, Len(positions) - 1)),
             positions[Len(positions)])

\* the loop over the sorted positions and the remaining text after it
RECURSIVE EmitTags(_, _, _)
EmitTags(essay_text, positions, current_pos) ==
    IF positions = << >>
    THEN Slice(essay_text, current_pos, Len(essay_text))
    ELSE LET p == Head(positions)
         IN  Slice(essay_text, current_pos, p.pos)
                 \o (IF p.tag_type = "start"
                     THEN CommentStartTag(p.comment_id, p.comment_text)
                     ELSE CommentEndTag(p.comment_id))
                 \o EmitTags(essay_text, Tail(positions), p.pos)

\* the keys of a dict are read with d[key]: a missing key raises KeyError
HasKeys(d, keys) == keys \subseteq DOMAIN d

\* `not essay_text`: None or the empty string
IsEmptyText(text) == text = None \/ text = << >>

\* XmlFormatter.format
XmlFormatter_format(data) ==
    IF ~HasKeys(data, { "essay_text", "comments" }) THEN Raises("KeyError")
    ELSE IF IsEmptyText(data.essay_text) \/ data.comments = << >>
         THEN Returns(<< >>)
    ELSE IF \E i \in 1 .. Len(data.comments) :
                ~HasKeys(data.comments[i], { "start", "end", "data" })
         THEN Raises("KeyError")
    ELSE Returns(EmitTags(data.essay_text,
                          SortPositions(Positions(data.comments, 1)), 0))

\* _process_text: text.replace('\n', '<br><br>')
br_br ==
    << "<", "b", "r", ">", "<", "b", "r", ">" >>

_process_text(text) == replace(text, << "\n" >>, br_br)

\* the literal parts of the f-string of _generate_html
span_highlighted ==
    << "<", "s", "p", "a", "n", " ", "c", "l", "a", "s", "s", "=", "\"", "h",
       "i", "g", "h", "l", "i", "g", "h", "t", "e", "d", "\"", ">" >>
span_tooltip ==
    << "<", "s", "p", "a", "n", " ", "c", "l", "a", "s", "s", "=", "\"", "t",
       "o", "o", "l", "t", "i", "p", "\"", ">" >>
span_close ==
    << "<", "/", "s", "p", "a", "n", ">", "<", "/", "s", "p", "a", "n", ">" >>

\* _get_html_template(), kept as one piece: the head of the page up to and
\* including the <body> tag
html_template == << "<html><head><style>...</style></head><body>" >>

\* "\n</body>\n</html>"
html_end ==
    << "\n", "<", "/", "b", "o", "d", "y", ">", "\n", "<", "/", "h", "t",
       "m", "l", ">" >>

\* sorted(json_data["comments"], key=lambda x: x["start"]): stable
RECURSIVE SortedByStart(_)
SortedByStart(comment_list) ==
    IF comment_list = << >> THEN << >>
    ELSE LET init == SortedByStart(SubSeq(comment_list, 1,
                                          Len(comment_list) - 1))
             c == comment_list[Len(comment_list)]
             later == { j \in 1 .. Len(init) : c.start < init[j].start }
             at == IF later = {} THEN Len(init) + 1 ELSE Min(later)
         IN  SubSeq(init, 1, at - 1) \o << c >> \o SubSeq(init, at, Len(init))

\* the loop of _generate_html over the sorted comments and the remaining text
RECURSIVE Splice(_, _, _)
Splice(essay_text, comment_list, current_pos) ==
    IF comment_list = << >>
    THEN _process_text(Slice(essay_text, current_pos, Len(essay_text)))
    ELSE LET comment == Head(comment_list)
         IN  _process_text(Slice(essay_text, current_pos, comment.start))
                 \o span_highlighted
                 \o _process_text(Slice(essay_text, comment.start,
                                        comment["end"]))
                 \o span_tooltip \o _process_text(comment.comment_text)
                 \o span_close
                 \o Splice(essay_text, Tail(comment_list), comment["end"])

\* HtmlFormatter._generate_html
_generate_html(essay_text, comment_list) ==
    html_template \o Splice(essay_text, comment_list, 0) \o html_end

\* the reads of format and json_to_html that can raise KeyError, in order
HtmlKeysMissing(data) ==
    \/ ~HasKeys(data, { "revised_essay", "comments" })
    \/ \E i \in 1 .. Len(data.comments) : ~HasKeys(data.comments[i], { "start" })
    \/ /\ ~IsEmptyText(data.revised_essay)
       /\ \E i \in 1 .. Len(data.comments) :
              ~HasKeys(data.comments[i], { "end", "comment_text" })

\* HtmlFormatter.format
HtmlFormatter_format(data) ==
    IF HtmlKeysMissing(data) THEN Raises("KeyError")
    ELSE IF IsEmptyText(data.revised_essay) \/ data.comments = << >>
         THEN Returns(<< >>)
    ELSE Returns(_generate_html(data.revised_essay,
                                SortedByStart(data.comments)))

\* src/main.py json_to_html: the same reads, test, loop and closing tags
json_to_html(data) ==
    IF HtmlKeysMissing(data) THEN Raises("KeyError")
    ELSE IF IsEmptyText(data.revised_essay) \/ data.comments = << >>
         THEN Returns(<< >>)
    ELSE Returns(html_template
                     \o Splice(data.revised_essay,
                               SortedByStart(data.comments), 0)
                     \o html_end)

\* src/main.py Comment.get_dict with include_author and include_date off
LegacyComment(comment_text, highlighted_text, start, end) ==
    [ start |-> start, end |-> end, highlighted_text |-> highlighted_text,
      comment_text |-> comment_text ]

\* a class of the factory table: its name and whether its __init__ takes
\* the config argument (BaseFormatter.__init__ does, object.__init__ not)
FormatterClass(name, takes_config) ==
    [ name |-> name, takes_config |-> takes_config ]

JsonFormatter == FormatterClass("JsonFormatter", FALSE)
HtmlFormatter == FormatterClass("HtmlFormatter", TRUE)

\* FormatterFactory._formatters
_formatters ==
    [ n \in { "json", "html" } |->
          IF n = "json" THEN JsonFormatter ELSE HtmlFormatter ]

\* FormatterFactory.get_valid_formats
get_valid_formats == DOMAIN _formatters

\* what a call of the factory gave: the class of the instance returned or
\* the exception raised
Formatter(name, class, raised) ==
    [ name |-> name, class |-> class, raised |-> raised ]

\* FormatterFactory.get_formatter; formatter_class(config) raises TypeError
\* when the class takes no argument
get_formatter(name) ==
    IF name \notin DOMAIN _formatters
    THEN Formatter(name, "None", "ValueError")
    ELSE IF _formatters[name].takes_config
         THEN Formatter(name, _formatters[name].name, "None")
         ELSE Formatter(name, "None", "TypeError")

-----------------------------------------------------------------------------
(* process_document and, in src/main.py, process_folder around it.         *)

\* what zipfile.ZipFile and ElementTree.fromstring do with the file: read it,
\* or raise the named exception
Archives == { "ok", "BadZipFile", "OSError", "ParseError" }

\* the exceptions a document can raise inside process_document's try block
Exceptions ==
    { "OSError", "ParseError", "ValueError", "AttributeError",
      "PackageNotFoundError" }

\* process_document: result = {ESSAY_PROMPT_KEY: None, ESSAY_TEXT_KEY: None,
\* COMMENTS_KEY: []}, the dict every early return and the handler return
EmptyResult ==
    [ essay_prompt |-> None, essay_text |-> None, comments |-> << >> ]

\* src/main.py: result = {"revised_essay": None, "comments": []}
LegacyEmptyResult == [ revised_essay |-> None, comments |-> << >> ]

\* the dict process_document starts from in either program
InitialResult(prog) ==
    IF prog = "main" THEN LegacyEmptyResult ELSE EmptyResult

\* ExtractConfig(): prompt_start_token=None, prompt_end_token=None
prompt_tokens == << None, None >>

\* extract_table's return value: no table, or the rows below the header row
Tables == { << >>, << [ item |-> << "i" >>, evaluation |-> << "e" >> ] >> }

\* _read_docx_file: the three payloads, (None, None, None) on BadZipFile;
\* any other exception of ZipFile or fromstring propagates
ReadDocx ==
    /\ pc = "read"
    /\ CASE archive = "ok" ->
                /\ pc' = "walk"
                /\ UNCHANGED << comments_root, comments_extend_root,
                                has_document >>
         [] archive = "BadZipFile" ->
                /\ pc' = "walk"
                /\ comments_root' = NoRoot
                /\ comments_extend_root' = NoRoot
                /\ has_document' = FALSE
         [] OTHER ->
                /\ pc' = archive
                /\ UNCHANGED << comments_root, comments_extend_root,
                                has_document >>
    /\ UNCHANGED << doc, current_range_ids, comment_id_to_range, full_text,
                    is_first_paragraph, fb_tokens, fb_section, legacy_section,
                    sub_comments, comments >>
    /\ UNCHANGED << program, archive, result, files_left, failed_before >>
    /\ UNCHANGED formatVars

\* a walk without the None test: doc_root.iter() on None raises
WalkAbsentRaises ==
    /\ pc = "walk"
    /\ ~has_document
    /\ pc' = "AttributeError"
    /\ UNCHANGED << doc, current_range_ids, comment_id_to_range, full_text,
                    is_first_paragraph, fb_tokens, fb_section, legacy_section,
                    comments_extend_root, sub_comments, comments_root,
                    comments >>
    /\ UNCHANGED << documentVars, formatVars >>

\* _extract_highlight_ranges: if doc_root is None:
\* return comment_id_to_range, full_text
WalkAbsent ==
    /\ pc = "walk"
    /\ ~has_document
    /\ pc' = "locate"
    /\ UNCHANGED << doc, current_range_ids, comment_id_to_range, full_text,
                    is_first_paragraph, fb_tokens, fb_section, legacy_section,
                    comments_extend_root, sub_comments, comments_root,
                    comments >>
    /\ UNCHANGED << documentVars, formatVars >>

\* general_feedbacks = self.extract_table(file_path): Document(input_file)
\* raises on a file python-docx cannot open
ExtractTableRaises ==
    /\ pc = "done"
    /\ pc' = "PackageNotFoundError"
    /\ UNCHANGED << doc, current_range_ids, comment_id_to_range, full_text,
                    is_first_paragraph, fb_tokens, fb_section, legacy_section,
                    comments_extend_root, sub_comments, comments_root,
                    comments >>
    /\ UNCHANGED << documentVars, formatVars >>

\* a try block without the test of the section text
ResultOfWithoutTextTest(prompt_text, text, comment_list, general_feedbacks) ==
    [ essay_prompt |-> prompt_text, essay_text |-> text,
      comments |-> comment_list,
      general_feedback |-> general_feedbacks ]

\* the dict process_document returns from inside the try block
ResultOf(prompt_text, text, comment_list, general_feedbacks) ==
    IF text = << >> THEN EmptyResult
    ELSE [ essay_prompt |-> prompt_text, essay_text |-> text,
           comments |-> comment_list,
           general_feedback |-> general_feedbacks ]

\* process_document after extract_comments_from_docx has returned
ProcessDocument ==
    /\ pc = "done"
    /\ archive = "ok"
    /\ \E general_feedbacks \in Tables :
           LET prompt_section ==
                   extract_text_between_tokens(full_text, prompt_tokens[1],
                                               prompt_tokens[2])
           IN  result' = ResultOf(prompt_section.stripped_text,
                                  fb_section.stripped_text, comments,
                                  general_feedbacks)
    /\ pc' = "returned"
    /\ UNCHANGED << doc, current_range_ids, comment_id_to_range, full_text,
                    is_first_paragraph, fb_tokens, fb_section, legacy_section,
                    comments_extend_root, sub_comments, comments_root,
                    comments >>
    /\ UNCHANGED << program, archive, has_document, files_left,
                    failed_before >>
    /\ UNCHANGED formatVars

\* a handler that only knows the archive error
CaughtIfBadZipFile(exception) == exception = "BadZipFile"

\* except Exception as e: every exception of the try block is caught
Caught(exception) == exception \in Exceptions \cup { "BadZipFile" }

\* process_document's except clause: log, return result; an exception the
\* clause does not catch leaves process_document and its caller
HandleException ==
    /\ pc \in Exceptions
    /\ pc' = IF Caught(pc) THEN "returned" ELSE "escaped"
    /\ UNCHANGED << doc, current_range_ids, comment_id_to_range, full_text,
                    is_first_paragraph, fb_tokens, fb_section, legacy_section,
                    comments_extend_root, sub_comments, comments_root,
                    comments >>
    /\ UNCHANGED << documentVars, formatVars >>

\* src/main.py: sub_comments = self._get_sub_comments(comments_extend_root)
LegacyGetSubComments ==
    /\ pc = "legacy_located"
    /\ sub_comments' = _get_sub_comments(comments_extend_root)
    /\ pc' = "legacy_comments"
    /\ UNCHANGED << doc, current_range_ids, comment_id_to_range, full_text,
                    is_first_paragraph, fb_tokens, fb_section, legacy_section,
                    comments_extend_root, comments_root, comments >>
    /\ UNCHANGED << documentVars, formatVars >>

\* src/main.py: if comments_root is None
LegacySkipDocument ==
    /\ pc = "legacy_comments"
    /\ ~comments_root.present
    /\ comments' = << >>
    /\ pc' = "legacy_done"
    /\ UNCHANGED << doc, current_range_ids, comment_id_to_range, full_text,
                    is_first_paragraph, fb_tokens, fb_section, legacy_section,
                    comments_extend_root, sub_comments, comments_root >>
    /\ UNCHANGED << documentVars, formatVars >>

\* src/main.py: the iteration gets as far as section.start
ReachesSection(comment_node) ==
    /\ comment_node.has_para
    /\ comment_node.paraId \notin sub_comments
    /\ comment_node.id \in DOMAIN comment_id_to_range

\* src/main.py: comment.get_dict(...) of the Comment of the same fields
AsLegacyDict(c) ==
    LegacyComment(c.data, c.highlighted_text, c.start, c["end"])

\* src/main.py: one iteration of the loop of _extract_comments, which reads
\* section.start of a section that is None when a token was not found
LegacyExtractComment(comment_node) ==
    /\ pc = "legacy_comments"
    /\ comments_root.present
    /\ \A i \in 1 .. Len(comments_root.nodes) :
           comments_root.nodes[i].id # comment_node.id
    /\ comments_root' = Root(Append(comments_root.nodes, comment_node))
    /\ IF ReachesSection(comment_node) /\ legacy_section = NoSection
       THEN /\ pc' = "AttributeError"
            /\ UNCHANGED << comment_id_to_range, comments >>
       ELSE LET after == ProcessComment(comment_node, comment_id_to_range,
                                        legacy_section.start, sub_comments,
                                        comments)
            IN  /\ comment_id_to_range' = after.ranges
                /\ comments' =
                       IF Len(after.comments) > Len(comments)
                       THEN Append(comments,
                                   AsLegacyDict(
                                       after.comments[Len(after.comments)]))
                       ELSE comments
                /\ pc' = pc
    /\ UNCHANGED << doc, current_range_ids, full_text, is_first_paragraph,
                    fb_tokens, fb_section, legacy_section,
                    comments_extend_root, sub_comments >>
    /\ UNCHANGED << documentVars, formatVars >>

\* src/main.py: the loop is exhausted
LegacyReturnComments ==
    /\ pc = "legacy_comments"
    /\ comments_root.present
    /\ pc' = "legacy_done"
    /\ UNCHANGED << doc, current_range_ids, comment_id_to_range, full_text,
                    is_first_paragraph, fb_tokens, fb_section, legacy_section,
                    comments_extend_root, sub_comments, comments_root,
                    comments >>
    /\ UNCHANGED << documentVars, formatVars >>

\* src/main.py: the dict process_document returns from inside the try block
LegacyResultOf(section, comment_list) ==
    IF section = NoSection THEN LegacyEmptyResult
    ELSE IF section.stripped_text = << >> THEN LegacyEmptyResult
    ELSE [ revised_essay |-> section.stripped_text,
           comments |-> comment_list ]

\* src/main.py: process_document after extract_comments_from_docx returned
LegacyProcessDocument ==
    /\ pc = "legacy_done"
    /\ result' = LegacyResultOf(legacy_section, comments)
    /\ pc' = "returned"
    /\ UNCHANGED << doc, current_range_ids, comment_id_to_range, full_text,
                    is_first_paragraph, fb_tokens, fb_section, legacy_section,
                    comments_extend_root, sub_comments, comments_root,
                    comments >>
    /\ UNCHANGED << program, archive, has_document, files_left,
                    failed_before >>
    /\ UNCHANGED formatVars

\* src/main.py process_folder: comments = result['comments'], the JSON dump
\* and the HTML file of the document just processed
SaveOutputs ==
    /\ pc = "returned"
    /\ program = "main"
    /\ output' = json_to_html(result)
    /\ pc' = IF "comments" \in DOMAIN result /\ output'.raised = "None"
             THEN "saved" ELSE "escaped"
    /\ UNCHANGED << doc, current_range_ids, comment_id_to_range, full_text,
                    is_first_paragraph, fb_tokens, fb_section, legacy_section,
                    comments_extend_root, sub_comments, comments_root,
                    comments >>
    /\ UNCHANGED << documentVars, json_data, formatter >>

\* src/main.py process_folder: the next .docx file of os.listdir, with an
\* archive of its own and the configuration of the run
NextFile ==
    /\ pc = "saved"
    /\ files_left > 0
    /\ files_left' = files_left - 1
    /\ failed_before' = (failed_before \/ archive # "ok")
    /\ result' = LegacyEmptyResult
    /\ pc' = "read"
    /\ doc' = << >>
    /\ current_range_ids' = << >>
    /\ comment_id_to_range' = << >>
    /\ full_text' = << >>
    /\ is_first_paragraph' = TRUE
    /\ fb_section' = NoSection
    /\ legacy_section' = NoSection
    /\ sub_comments' = {}
    /\ comments' = << >>
    /\ archive' \in Archives
    /\ has_document' \in BOOLEAN
    /\ comments_extend_root' \in ExtendRoots
    /\ comments_root' \in { NoRoot, Root(<< >>) }
    /\ archive' # "ok" =>
           /\ ~has_document'
           /\ comments_extend_root' = NoRoot
           /\ comments_root' = NoRoot
    /\ output' = Returns(<< >>)
    /\ UNCHANGED << program, fb_tokens, json_data, formatter >>

\* one document whose archive has been read, outside process_folder
SingleDocument ==
    /\ program = "comment_extractor"
    /\ archive = "ok"
    /\ has_document = TRUE
    /\ result = EmptyResult
    /\ files_left = 0
    /\ failed_before = FALSE

\* no formatter has been asked for
NoFormatting ==
    /\ json_data = EmptyResult
    /\ formatter = Formatter("None", "None", "None")
    /\ output = Returns(<< >>)

\* characters of the texts and comment bodies handed to the formatters
FormatChars == { "a", "\n" }
Bodies == { << "x" >>, << "<", "&", ">", "\"", "'" >> }

\* all texts over FormatChars of exactly n characters
RECURSIVE FormatTextsOfLen(_)
FormatTextsOfLen(n) ==
    IF n = 0 THEN { << >> }
    ELSE { Append(t, c) : t \in FormatTextsOfLen(n - 1), c \in FormatChars }

\* the spans of a text: 0 <= start <= end <= len(text)
Spans(text) ==
    { sp \in (0 .. Len(text)) \X (0 .. Len(text)) : sp[1] <= sp[2] }

\* the dict either program's get_dict makes of a comment on the span
CommentOn(prog, id, body, text, sp) ==
    IF prog = "main"
    THEN LegacyComment(body, Slice(text, sp[1], sp[2]), sp[1], sp[2])
    ELSE Comment(id, body, Slice(text, sp[1], sp[2]), sp[1], sp[2])

\* the comment lists of up to two comments on spans of the text
CommentLists(prog, text) ==
    LET one(id) == { CommentOn(prog, id, b, text, sp) :
                         b \in Bodies, sp \in Spans(text) }
    IN  { << >> } \cup { << c >> : c \in one(1) }
            \cup { << c1, c2 >> : c1 \in one(1), c2 \in one(2) }

\* the dict either program's process_document returns for text and comments
RecordOf(prog, text, comment_list) ==
    IF prog = "main"
    THEN LegacyResultOf(Section(0, Len(text), text, text), comment_list)
    ELSE ResultOf(text, text, comment_list, << >>)

\* an essay text that reads like a tag of XmlFormatter
TagLikeText == CommentEndTag(0)

\* XmlFormatter(config).format(json_data)
FormatXml ==
    /\ pc = "format"
    /\ formatter' = Formatter("None", "XmlFormatter", "None")
    /\ output' = XmlFormatter_format(json_data)
    /\ pc' = "formatted"
    /\ UNCHANGED << doc, current_range_ids, comment_id_to_range, full_text,
                    is_first_paragraph, fb_tokens, fb_section, legacy_section,
                    comments_extend_root, sub_comments, comments_root,
                    comments >>
    /\ UNCHANGED << documentVars, json_data >>

\* HtmlFormatter(config).format(json_data)
FormatHtml ==
    /\ pc = "format"
    /\ formatter' = Formatter("None", "HtmlFormatter", "None")
    /\ output' = HtmlFormatter_format(json_data)
    /\ pc' = "formatted"
    /\ UNCHANGED << doc, current_range_ids, comment_id_to_range, full_text,
                    is_first_paragraph, fb_tokens, fb_section, legacy_section,
                    comments_extend_root, sub_comments, comments_root,
                    comments >>
    /\ UNCHANGED << documentVars, json_data >>

\* src/main.py: html_content = json_to_html(result)
JsonToHtml ==
    /\ pc = "format"
    /\ formatter' = Formatter("None", "json_to_html", "None")
    /\ output' = json_to_html(json_data)
    /\ pc' = "formatted"
    /\ UNCHANGED << doc, current_range_ids, comment_id_to_range, full_text,
                    is_first_paragraph, fb_tokens, fb_section, legacy_section,
                    comments_extend_root, sub_comments, comments_root,
                    comments >>
    /\ UNCHANGED << documentVars, json_data >>

\* FormatterFactory.get_formatter(name)
GetFormatter(name) ==
    /\ pc = "format"
    /\ formatter' = get_formatter(name)
    /\ pc' = "factory"
    /\ UNCHANGED << doc, current_range_ids, comment_id_to_range, full_text,
                    is_first_paragraph, fb_tokens, fb_section, legacy_section,
                    comments_extend_root, sub_comments, comments_root,
                    comments >>
    /\ UNCHANGED << documentVars, json_data, output >>

\* the names asked of the factory
FormatNames == { "json", "html", "xml", "" }

-----------------------------------------------------------------------------
(* Specifications.                                                         *)

WalkInit ==
    /\ pc = "walk"
    /\ doc = << >>
    /\ current_range_ids = << >>
    /\ comment_id_to_range = << >>
    /\ full_text = << >>
    /\ is_first_paragraph = TRUE
    /\ fb_section = NoSection
    /\ legacy_section = NoSection
    /\ sub_comments = {}
    /\ comments = << >>

\* end to end: the archive is read, the walk is about to start
Init ==
    /\ WalkInit
    /\ SingleDocument
    /\ NoFormatting
    /\ fb_tokens \in DocTokens
    /\ comments_extend_root \in ExtendRoots
    /\ comments_root \in { NoRoot, Root(<< >>) }

Next ==
    \/ \E elem \in DocElems : Len(doc) < MaxDocNodes /\ WalkElem(elem)
    \/ WalkReturn
    \/ LocateSection
    \/ GetSubComments
    \/ SkipDocument
    \/ \E comment_node \in CommentNodes : ExtractComment(comment_node)
    \/ ReturnComments

Spec == Init /\ [][Next]_vars

\* the tree walk alone, over every element kind
InitWalk ==
    /\ WalkInit
    /\ SingleDocument
    /\ NoFormatting
    /\ fb_tokens = << None, None >>
    /\ comments_extend_root = NoRoot
    /\ comments_root = NoRoot

NextWalk ==
    \/ \E elem \in WalkElems : Len(doc) < MaxWalkNodes /\ WalkElem(elem)
    \/ WalkReturn

SpecWalk == InitWalk /\ [][NextWalk]_vars

\* the section locators alone: the text is the document's single text run
InitLocate ==
    /\ \E n \in 0 .. MaxTextLen : full_text \in TextsOfLen(n)
    /\ doc = << TextRun(full_text) >>
    /\ pc = "locate"
    /\ current_range_ids = << >>
    /\ comment_id_to_range = << >>
    /\ is_first_paragraph = TRUE
    /\ fb_tokens \in LocateTokens \X LocateTokens
    /\ fb_section = NoSection
    /\ legacy_section = NoSection
    /\ comments_extend_root = NoRoot
    /\ comments_root = NoRoot
    /\ sub_comments = {}
    /\ comments = << >>
    /\ SingleDocument
    /\ NoFormatting

NextLocate ==
    \/ LocateSection
    \/ LegacyLocateSection

SpecLocate == InitLocate /\ [][NextLocate]_vars

\* process_document of either program on one file, and process_folder of
\* src/main.py over up to MaxFiles files
InitDocument ==
    /\ pc = "read"
    /\ doc = << >>
    /\ current_range_ids = << >>
    /\ comment_id_to_range = << >>
    /\ full_text = << >>
    /\ is_first_paragraph = TRUE
    /\ fb_section = NoSection
    /\ legacy_section = NoSection
    /\ sub_comments = {}
    /\ comments = << >>
    /\ program \in { "comment_extractor", "main" }
    /\ fb_tokens \in DocTokens
    /\ program = "main" => (fb_tokens[1] # None /\ fb_tokens[2] # None)
    /\ archive \in Archives
    /\ has_document \in BOOLEAN
    /\ comments_extend_root \in ExtendRoots
    /\ comments_root \in { NoRoot, Root(<< >>) }
    /\ archive # "ok" =>
           /\ ~has_document
           /\ comments_extend_root = NoRoot
           /\ comments_root = NoRoot
    /\ result = InitialResult(program)
    /\ files_left \in 0 .. (MaxFiles - 1)
    /\ program = "comment_extractor" => files_left = 0
    /\ failed_before = FALSE
    /\ NoFormatting

NextDocument ==
    \/ ReadDocx
    \/ \E elem \in FileElems :
           has_document /\ Len(doc) < MaxFileNodes /\ WalkElem(elem)
    \/ has_document /\ WalkReturn
    \/ WalkAbsent
    \/ program = "comment_extractor" /\ LocateSection
    \/ GetSubComments
    \/ SkipDocument
    \/ \E comment_node \in FileCommentNodes : ExtractComment(comment_node)
    \/ ReturnComments
    \/ ExtractTableRaises
    \/ ProcessDocument
    \/ HandleException
    \/ program = "main" /\ LegacyLocateSection
    \/ LegacyGetSubComments
    \/ LegacySkipDocument
    \/ \E comment_node \in FileCommentNodes : LegacyExtractComment(comment_node)
    \/ LegacyReturnComments
    \/ LegacyProcessDocument
    \/ SaveOutputs
    \/ NextFile

SpecDocument == InitDocument /\ [][NextDocument]_vars

\* the formatters on the dict of a document: a text of up to MaxFormatLen
\* characters with up to two comments on its spans, or the tag-like text
\* with one comment on all of it
InitFormat ==
    /\ pc = "format"
    /\ doc = << >>
    /\ current_range_ids = << >>
    /\ comment_id_to_range = << >>
    /\ full_text = << >>
    /\ is_first_paragraph = TRUE
    /\ fb_tokens = << None, None >>
    /\ fb_section = NoSection
    /\ legacy_section = NoSection
    /\ comments_extend_root = NoRoot
    /\ comments_root = NoRoot
    /\ sub_comments = {}
    /\ comments = << >>
    /\ program \in { "comment_extractor", "main" }
    /\ archive = "ok"
    /\ has_document = TRUE
    /\ result = InitialResult(program)
    /\ files_left = 0
    /\ failed_before = FALSE
    /\ \/ \E n \in 0 .. MaxFormatLen :
              \E text \in FormatTextsOfLen(n) :
                  \E comment_list \in CommentLists(program, text) :
                      json_data = RecordOf(program, text, comment_list)
       \/ /\ program = "comment_extractor"
          /\ \E b \in Bodies :
                 json_data =
                     RecordOf(program, TagLikeText,
                              << CommentOn(program, 1, b, TagLikeText,
                                           << 0, Len(TagLikeText) >>) >>)
    /\ formatter = Formatter("None", "None", "None")
    /\ output = Returns(<< >>)

NextFormat ==
    \/ FormatXml
    \/ FormatHtml
    \/ JsonToHtml
    \/ \E name \in FormatNames : GetFormatter(name)

SpecFormat == InitFormat /\ [][NextFormat]_vars

-----------------------------------------------------------------------------
(* What a document flattens to, read off the document itself.              *)

\* what the i-th element of d adds to the flattened text
Contribution(d, i) ==
    CASE d[i].tag = "t" -> d[i].text
      [] d[i].tag = "p" ->
             IF \E j \in 1 .. (i - 1) : d[j].tag = "p" THEN << "\n" >>
             ELSE << >>
      [] d[i].tag = "br" -> << "\n" >>
      [] OTHER -> << >>

\* the flattened text of the first k elements of d
RECURSIVE FlatUpTo(_, _)
FlatUpTo(d, k) ==
    IF k = 0 THEN << >> ELSE FlatUpTo(d, k - 1) \o Contribution(d, k)

IsRangeMarker(elem) == elem.tag \in { "commentRangeStart", "commentRangeEnd" }

Opens(d, id) == { i \in 1 .. Len(d) : d[i] = RangeStart(id) }
Closes(d, id) == { i \in 1 .. Len(d) : d[i] = RangeEnd(id) }

\* each id is opened at most once and closed at most once
OpenedAndClosedAtMostOnce(d) ==
    \A id \in CommentIds :
        /\ Cardinality(Opens(d, id)) <= 1
        /\ Cardinality(Closes(d, id)) <= 1

\* where the range of id opened, and the number of elements seen when it
\* closed (the whole document if no close follows the open)
OpenAt(d, id) == Min(Opens(d, id))
ClosedAt(d, id) ==
    LET after == { i \in Closes(d, id) : i > OpenAt(d, id) }
    IN  IF after = {} THEN Len(d) ELSE Min(after)

-----------------------------------------------------------------------------
(* C2: in a walk over a document that opens and closes each id at most     *)
(* once, the range map holds exactly the opened ids, each range's          *)
(* absolute_start is the length of the flattened text when it opened, and  *)
(* its accumulated text is the flattened text from absolute_start to the   *)
(* length at its close (the end of the text while it is open).             *)
C2_RangeTextIsSliceOfFlattenedText ==
    (pc \in { "walk", "locate" } /\ OpenedAndClosedAtMostOnce(doc)) =>
        /\ DOMAIN comment_id_to_range =
               { id \in CommentIds : Opens(doc, id) # {} }
        /\ \A id \in DOMAIN comment_id_to_range :
               LET hr == comment_id_to_range[id]
                   opened == Len(FlatUpTo(doc, OpenAt(doc, id)))
                   closed == Len(FlatUpTo(doc, ClosedAt(doc, id)))
               IN  /\ hr.absolute_start = opened
                   /\ get_text(hr) = Slice(full_text, opened, closed)

\* both ranges are open over a shared fragment and range 1 closes first
C2_Witness ==
    /\ pc = "locate"
    /\ OpenedAndClosedAtMostOnce(doc)
    /\ DOMAIN comment_id_to_range = { 1, 2 }
    /\ Closes(doc, 1) # {}
    /\ current_range_ids = << 2 >>
    /\ get_text(comment_id_to_range[1]) # << >>
    /\ get_text(comment_id_to_range[2]) # << >>

-----------------------------------------------------------------------------
(* C9: for a document without range-open and range-close elements the     *)
(* walk returns an empty range map and the concatenation of the text-run   *)
(* contents, with one separator per paragraph after the first and one per  *)
(* explicit line break.                                                    *)
C9_FlattenedTextWithoutRanges ==
    (pc = "locate" /\ \A i \in 1 .. Len(doc) : ~IsRangeMarker(doc[i])) =>
        /\ comment_id_to_range = << >>
        /\ full_text = FlatUpTo(doc, Len(doc))

\* two paragraphs, a text run and a line break, and no range marker
C9_Witness ==
    /\ pc = "locate"
    /\ \A i \in 1 .. Len(doc) : ~IsRangeMarker(doc[i])
    /\ Cardinality({ i \in 1 .. Len(doc) : doc[i].tag = "p" }) = 2
    /\ \E i \in 1 .. Len(doc) : doc[i].tag = "t" /\ doc[i].text # << >>
    /\ \E i \in 1 .. Len(doc) : doc[i].tag = "br"

-----------------------------------------------------------------------------
(* Where the tokens occur in a text, read off the text itself.             *)

\* tok occurs in text at 0-based offset i
OccursAt(text, tok, i) ==
    /\ i >= 0
    /\ i + Len(tok) <= Len(text)
    /\ \A k \in 1 .. Len(tok) : text[i + k] = tok[k]

\* the offsets >= from at which tok occurs
OccurrencesFrom(text, tok, from) ==
    { i \in from .. Len(text) : OccursAt(text, tok, i) }

\* the raw section start the locator is to resolve
ExpectedRawStart(text, start_token) ==
    IF start_token = None \/ OccurrencesFrom(text, start_token, 0) = {}
    THEN 0
    ELSE Min(OccurrencesFrom(text, start_token, 0)) + Len(start_token)

\* the raw section end the locator is to resolve
ExpectedRawEnd(text, start_token, end_token) ==
    LET from == ExpectedRawStart(text, start_token)
    IN  IF end_token = None \/ OccurrencesFrom(text, end_token, from) = {}
        THEN Len(text)
        ELSE Min(OccurrencesFrom(text, end_token, from))

\* the number of whitespace characters s begins with / ends with
LeadingBlanks(s) ==
    Cardinality({ k \in 1 .. Len(s) : \A j \in 1 .. k : IsSpace(s[j]) })
TrailingBlanks(s) ==
    Cardinality({ k \in 1 .. Len(s) : \A j \in k .. Len(s) : IsSpace(s[j]) })

\* the raw boundaries a Section was cut at, recovered from its fields
RawStartOf(section) == section.start - LeadingBlanks(section.raw_text)
RawEndOf(section) == RawStartOf(section) + Len(section.raw_text)

\* a string as the sequence of its characters
EssayExample ==
    << "A", " ", "<", "!", "-", "-", " ", "e", "s", "s", "a", "y", " ",
       "t", "e", "x", "t" >>
EssayStartToken == << "<", "!", "-", "-" >>
EssayEndToken == << "-", "-", ">" >>

-----------------------------------------------------------------------------
(* C6: a missing boundary token never fails the extraction: the locator    *)
(* always returns a Section, whose raw start is 0 when the start token     *)
(* does not occur and whose raw end is len(text) when the end token does   *)
(* not occur at or after the start.  Stated of both locators of the        *)
(* repository; the one of src/main.py returns None instead.                *)
C6_MissingTokenNeverFails ==
    /\ pc = "replies" =>
           /\ fb_section # NoSection
           /\ RawStartOf(fb_section) = ExpectedRawStart(full_text, fb_tokens[1])
           /\ RawEndOf(fb_section) =
                  ExpectedRawEnd(full_text, fb_tokens[1], fb_tokens[2])
    /\ pc = "legacy_located" =>
           /\ legacy_section # NoSection
           /\ RawStartOf(legacy_section) =
                  ExpectedRawStart(full_text, fb_tokens[1])
           /\ RawEndOf(legacy_section) =
                  ExpectedRawEnd(full_text, fb_tokens[1], fb_tokens[2])

\* the same statement of the locator of src/comment_extractor.py alone, with
\* the scenario "A <!-- essay text"
C6_CurrentLocatorFallsBack ==
    /\ pc = "replies" =>
           /\ fb_section # NoSection
           /\ RawStartOf(fb_section) = ExpectedRawStart(full_text, fb_tokens[1])
           /\ RawEndOf(fb_section) =
                  ExpectedRawEnd(full_text, fb_tokens[1], fb_tokens[2])
    /\ LET section == extract_text_between_tokens(EssayExample,
                          EssayStartToken, EssayEndToken)
       IN  /\ section.stripped_text =
                  << "e", "s", "s", "a", "y", " ", "t", "e", "x", "t" >>
           /\ section.start = 7
           /\ section.end = Len(EssayExample)

-----------------------------------------------------------------------------
(* C7: the Section the locator returns satisfies                           *)
(* 0 <= start <= end <= len(text), start is the raw start plus the leading *)
(* whitespace of raw_text, end is the raw end minus the trailing           *)
(* whitespace left after the leading strip, and text[start:end] is         *)
(* stripped_text.                                                          *)
C7_TrimmedOffsets ==
    pc = "replies" =>
        LET rawStart == ExpectedRawStart(full_text, fb_tokens[1])
            rawEnd == ExpectedRawEnd(full_text, fb_tokens[1], fb_tokens[2])
            raw == fb_section.raw_text
            lead == LeadingBlanks(raw)
            trail == TrailingBlanks(Slice(raw, lead, Len(raw)))
        IN  /\ 0 <= fb_section.start
            /\ fb_section.start <= fb_section.end
            /\ fb_section.end <= Len(full_text)
            /\ raw = Slice(full_text, rawStart, rawEnd)
            /\ fb_section.start = rawStart + lead
            /\ fb_section.end = rawEnd - trail
            /\ Slice(full_text, fb_section.start, fb_section.end) =
                   fb_section.stripped_text
            /\ Len(fb_section.stripped_text) = Len(raw) - lead - trail

\* a start token is found and the raw section is whitespace only
C7_Witness ==
    /\ pc = "replies"
    /\ fb_tokens[1] # None
    /\ OccurrencesFrom(full_text, fb_tokens[1], 0) # {}
    /\ fb_section.raw_text # << >>
    /\ fb_section.stripped_text = << >>
    /\ fb_section.start = fb_section.end

\* whitespace is trimmed on both sides of a non-empty section
C7_WitnessTrimmed ==
    /\ pc = "replies"
    /\ fb_section.stripped_text # << >>
    /\ fb_section.start > RawStartOf(fb_section)
    /\ fb_section.end < RawEndOf(fb_section)

-----------------------------------------------------------------------------
(* C8: with an end token given, the raw section end is the first           *)
(* occurrence of the end token at or after the resolved start (the index   *)
(* just past the first start token, or 0); an occurrence before the        *)
(* resolved start is never chosen, and the section end is not before the   *)
(* section start.                                                          *)
C8_EndTokenSearchedFromStart ==
    (pc = "replies" /\ fb_tokens[2] # None) =>
        LET from == ExpectedRawStart(full_text, fb_tokens[1])
            occ == OccurrencesFrom(full_text, fb_tokens[2], from)
        IN  /\ RawStartOf(fb_section) = from
            /\ occ # {} => RawEndOf(fb_section) = Min(occ)
            /\ occ = {} => RawEndOf(fb_section) = Len(full_text)
            /\ RawEndOf(fb_section) >= from
            /\ fb_section.end >= fb_section.start

\* the end token occurs before the resolved start and again after it
C8_Witness ==
    /\ pc = "replies"
    /\ fb_tokens[1] # None
    /\ fb_tokens[2] # None
    /\ LET from == ExpectedRawStart(full_text, fb_tokens[1])
       IN  /\ from > 0
           /\ \E i \in OccurrencesFrom(full_text, fb_tokens[2], 0) : i < from
           /\ OccurrencesFrom(full_text, fb_tokens[2], from) # {}
           /\ RawEndOf(fb_section) > from

-----------------------------------------------------------------------------
(* The annotations payload as iterated so far, and what becomes of it.     *)

Reconciling == pc \in { "comments", "done" }

\* the w:comment nodes the loop has processed, and the ids of the records
Processed == { comments_root.nodes[i] : i \in 1 .. Len(comments_root.nodes) }
EmittedIds == { comments[i].id : i \in 1 .. Len(comments) }

\* the paragraph of the comment has a parent reference in the metadata
IsReply(comment_node) ==
    /\ comment_node.has_para
    /\ comments_extend_root.present
    /\ \E i \in 1 .. Len(comments_extend_root.nodes) :
           /\ comments_extend_root.nodes[i].paraId = comment_node.paraId
           /\ comments_extend_root.nodes[i].paraIdParent # NoAttr

\* the comment's id has a range in the range map
HasRange(comment_node) == comment_node.id \in DOMAIN comment_id_to_range

\* a top-level comment with a paragraph whose id has no range
IsOrphan(comment_node) ==
    /\ comment_node.has_para
    /\ ~IsReply(comment_node)
    /\ ~HasRange(comment_node)

\* the range of the comment opens before the trimmed section start
OpensBeforeSection(comment_node) ==
    /\ HasRange(comment_node)
    /\ comment_id_to_range[comment_node.id].absolute_start < fb_section.start

\* a top-level comment whose range opens at or after the section start
WellFormedInSection(comment_node) ==
    /\ comment_node.has_para
    /\ ~IsReply(comment_node)
    /\ HasRange(comment_node)
    /\ ~OpensBeforeSection(comment_node)

-----------------------------------------------------------------------------
(* C1: for a document that opens and closes each id at most once, every    *)
(* emitted record has end - start = len(highlighted_text), and when end    *)
(* is within the section's stripped text, stripped_text[start:end] is the  *)
(* record's highlighted_text.                                              *)
C1_ByteExactOffsets ==
    (Reconciling /\ OpenedAndClosedAtMostOnce(doc)) =>
        \A i \in 1 .. Len(comments) :
            LET c == comments[i]
            IN  /\ c.end - c.start = Len(c.highlighted_text)
                /\ c.end <= Len(fb_section.stripped_text) =>
                       Slice(fb_section.stripped_text, c.start, c.end) =
                           c.highlighted_text

\* a record with highlighted text inside a section that begins after a token
C1_Witness ==
    /\ pc = "done"
    /\ OpenedAndClosedAtMostOnce(doc)
    /\ fb_section.start > 0
    /\ \E i \in 1 .. Len(comments) :
           /\ comments[i].highlighted_text # << >>
           /\ comments[i].end <= Len(fb_section.stripped_text)

-----------------------------------------------------------------------------
(* C3: every emitted record has start >= 0; a comment whose range opens    *)
(* before the trimmed section start has no record (it is dropped, its      *)
(* offset is not corrected), and the other well-formed comments each have  *)
(* their record at start = absolute_start - section.start.                 *)
C3_RangesBeforeSectionAreDropped ==
    Reconciling =>
        /\ \A i \in 1 .. Len(comments) : comments[i].start >= 0
        /\ \A n \in Processed :
               OpensBeforeSection(n) => n.id \notin EmittedIds
        /\ \A n \in Processed :
               WellFormedInSection(n) =>
                   \E i \in 1 .. Len(comments) :
                       /\ comments[i].id = n.id
                       /\ comments[i].start =
                              comment_id_to_range[n.id].absolute_start
                                  - fb_section.start

\* one comment is dropped for opening before the section, another is emitted
C3_Witness ==
    /\ pc = "done"
    /\ \E n \in Processed :
           /\ n.has_para
           /\ ~IsReply(n)
           /\ OpensBeforeSection(n)
    /\ Len(comments) = 1

-----------------------------------------------------------------------------
(* C4: every emitted record lies inside the feedback section:              *)
(* 0 <= start and end <= len(section.stripped_text), and a comment whose   *)
(* range opens at or after the section end is not emitted.                 *)
C4_RecordsInsideSection ==
    Reconciling =>
        /\ \A i \in 1 .. Len(comments) :
               /\ 0 <= comments[i].start
               /\ comments[i].end <= Len(fb_section.stripped_text)
        /\ \A n \in Processed :
               (/\ HasRange(n)
                /\ comment_id_to_range[n.id].absolute_start >= fb_section.end
                /\ fb_section.end < Len(full_text))
                   => n.id \notin EmittedIds

-----------------------------------------------------------------------------
(* C5: a reply never appears in the output: no emitted record carries the  *)
(* id of a comment whose paragraph id has a parent reference in the        *)
(* extended metadata; with the extended metadata absent the reply set is   *)
(* empty and every well-formed comment in the section is emitted.          *)
C5_RepliesNeverEmitted ==
    Reconciling =>
        /\ \A n \in Processed : IsReply(n) => n.id \notin EmittedIds
        /\ ~comments_extend_root.present =>
               /\ sub_comments = {}
               /\ \A n \in Processed :
                      (n.has_para /\ HasRange(n) /\ ~OpensBeforeSection(n))
                          => n.id \in EmittedIds

\* a reply with a range inside the section is dropped beside an emitted comment
C5_Witness ==
    /\ pc = "done"
    /\ Len(comments) = 1
    /\ \E n \in Processed :
           /\ IsReply(n)
           /\ HasRange(n)
           /\ ~OpensBeforeSection(n)

\* the extended metadata is absent and two comments are emitted
C5_WitnessNoMetadata ==
    /\ pc = "done"
    /\ ~comments_extend_root.present
    /\ Len(comments) = 2

-----------------------------------------------------------------------------
(* C10: an orphan comment (no range for its id) is dropped alone: it has   *)
(* no record, the loop does not fail, and the output is the one the loop   *)
(* produces over the same payload with the orphans taken out.              *)

\* the output of the loop run over the given w:comment nodes
RECURSIVE ExtractAll(_, _, _)
ExtractAll(nodes, ranges, out) ==
    IF nodes = << >> THEN out
    ELSE LET after == ProcessComment(Head(nodes), ranges, fb_section.start,
                                     sub_comments, out)
         IN  ExtractAll(Tail(nodes), after.ranges, after.comments)

C10_OrphanDroppedAlone ==
    Reconciling =>
        /\ \A n \in Processed : IsOrphan(n) => n.id \notin EmittedIds
        /\ comments =
               ExtractAll(SelectSeq(comments_root.nodes,
                                    LAMBDA n : ~IsOrphan(n)),
                          comment_id_to_range, << >>)

\* an orphan is processed after a comment that was emitted
C10_Witness ==
    /\ pc = "done"
    /\ Len(comments_root.nodes) = 2
    /\ IsOrphan(comments_root.nodes[2])
    /\ Len(comments) = 1
    /\ comments[1].highlighted_text # << >>

-----------------------------------------------------------------------------
(* C11: the records come out in the order of the w:comment nodes of the    *)
(* comment metadata, whatever their start offsets, and no comment is       *)
(* emitted twice: the list of record ids is the list of the ids of the     *)
(* processed nodes with some of its entries left out.                      *)

\* the ids of the w:comment nodes processed so far, in metadata order
MetadataIds == [ i \in 1 .. Len(comments_root.nodes) |-> comments_root.nodes[i].id ]

\* the ids of the records, in output order
OutputIds == [ i \in 1 .. Len(comments) |-> comments[i].id ]

\* sub is seq with entries left out: sub's entries are found in seq from
\* left to right, each after the one before it
RECURSIVE IsSubsequence(_, _)
IsSubsequence(sub, seq) ==
    IF sub = << >> THEN TRUE
    ELSE IF seq = << >> THEN FALSE
    ELSE IF Head(sub) = Head(seq) THEN IsSubsequence(Tail(sub), Tail(seq))
    ELSE IsSubsequence(sub, Tail(seq))

C11_OutputInMetadataOrder ==
    (Reconciling /\ comments_root.present) =>
        /\ IsSubsequence(OutputIds, MetadataIds)
        /\ \A i, j \in 1 .. Len(comments) :
               comments[i].id = comments[j].id => i = j

\* two records, the first of which starts after the second
C11_Witness ==
    /\ pc = "done"
    /\ Len(comments) = 2
    /\ comments[1].start > comments[2].start
    /\ IsSubsequence(OutputIds, MetadataIds)

-----------------------------------------------------------------------------
(* C12: a file whose archive cannot be opened or parsed aborts that        *)
(* document only: no exception leaves process_document, the dict returned  *)
(* for such a file is the empty result (text None, no comments), and       *)
(* process_folder goes on to save it and to process the files that remain. *)

\* process_document has returned its dict
Returned == pc \in { "returned", "saved" }

\* the text slot of the dict, under the key of either program
TextOf(r) ==
    IF "essay_text" \in DOMAIN r THEN r.essay_text ELSE r.revised_essay

C12_ArchiveErrorsAbortOneDocument ==
    /\ pc # "escaped"
    /\ (Returned /\ archive # "ok") =>
           /\ result = InitialResult(program)
           /\ TextOf(result) = None
           /\ result.comments = << >>
    /\ (pc = "returned" /\ program = "main") => ENABLED SaveOutputs
    /\ (pc = "saved" /\ files_left > 0) => ENABLED NextFile

\* a later file of the folder has given text and comments after the archive
\* of an earlier file failed
C12_Witness ==
    /\ failed_before
    /\ pc = "saved"
    /\ archive = "ok"
    /\ TextOf(result) # None
    /\ result.comments # << >>

\* the archive of the only document is corrupt and the empty result is back
C12_WitnessCorrupt ==
    /\ pc = "returned"
    /\ program = "comment_extractor"
    /\ archive = "BadZipFile"
    /\ result = EmptyResult

-----------------------------------------------------------------------------
(* C13: a payload missing from the archive degrades the extraction and     *)
(* does not abort it.  Without word/comments.xml the located section is    *)
(* returned with an empty comment list; without word/commentsExtended.xml  *)
(* the reply set is empty and every comment with a paragraph and a range   *)
(* at or after the section start is emitted; without word/document.xml     *)
(* the walk returns empty text and an empty range map and raises nothing.  *)

\* the archive was opened, whatever it contains
ArchiveRead == archive \in { "ok", "BadZipFile" } /\ pc # "read"

C13_MissingPayloadDegrades ==
    /\ (pc = "comments" /\ ~comments_root.present) => ENABLED SkipDocument
    /\ (pc = "done" /\ ~comments_root.present) =>
           /\ comments = << >>
           /\ fb_section = extract_text_between_tokens(full_text,
                                                       fb_tokens[1],
                                                       fb_tokens[2])
    /\ (Reconciling /\ ~comments_extend_root.present) =>
           /\ sub_comments = {}
           /\ \A n \in Processed :
                  (n.has_para /\ HasRange(n) /\ ~OpensBeforeSection(n))
                      => \E i \in 1 .. Len(comments) : comments[i].id = n.id
    /\ (ArchiveRead /\ ~has_document) =>
           /\ full_text = << >>
           /\ comment_id_to_range = << >>
           /\ pc \notin { "ValueError", "AttributeError" }
           /\ pc = "walk" => ENABLED WalkAbsent

\* the document has text and a range but no annotations payload, and the
\* section comes back with an empty list
C13_Witness ==
    /\ pc = "done"
    /\ archive = "ok"
    /\ ~comments_root.present
    /\ comment_id_to_range # << >>
    /\ fb_section.stripped_text # << >>
    /\ comments = << >>

\* no extended metadata: a comment whose paragraph is P2 is emitted
C13_WitnessNoMetadata ==
    /\ pc = "done"
    /\ ~comments_extend_root.present
    /\ \E i \in 1 .. Len(comments_root.nodes) :
           /\ comments_root.nodes[i].paraId = "P2"
           /\ comments_root.nodes[i].id \in EmittedIds

\* no document body: extract_comments_from_docx returns with empty text
\* although the annotations payload has comments
C13_WitnessNoDocument ==
    /\ pc = "done"
    /\ archive = "ok"
    /\ ~has_document
    /\ comments_root.present
    /\ Len(comments_root.nodes) > 0
    /\ full_text = << >>

-----------------------------------------------------------------------------
(* Reading the tags back out of the output of XmlFormatter.format.         *)

\* lit is in s at position i (from 1)
HasAt(s, i, lit) ==
    /\ i + Len(lit) - 1 <= Len(s)
    /\ SubSeq(s, i, i + Len(lit) - 1) = lit

\* the first position from i on where s has the character c, or 0
IndexFrom(s, i, c) ==
    LET js == { j \in i .. Len(s) : s[j] = c }
    IN  IF js = {} THEN 0 ELSE Min(js)

\* a non-empty run of decimal digits, and the number it writes
IsDigits(s) ==
    /\ s # << >>
    /\ \A k \in 1 .. Len(s) : \E d \in 1 .. 10 : DigitChars[d] = s[k]

DigitValue(c) == CHOOSE d \in 0 .. 9 : DigitChars[d + 1] = c

RECURSIVE int(_)
int(s) ==
    IF Len(s) = 1 THEN DigitValue(s[1])
    ELSE 10 * int(SubSeq(s, 1, Len(s) - 1)) + DigitValue(s[Len(s)])

\* the entities read back, the ampersand last
unescape(text) ==
    replace(replace(replace(replace(replace(text,
        apos, << "'" >>), quot, << "\"" >>), gt, << ">" >>),
        lt, << "<" >>), amp, << "&" >>)

NoTag == [ ok |-> FALSE, id |-> 0, data |-> << >>, next |-> 0 ]

\* the comment-start tag that begins at position i of s, if there is one
StartTagAt(s, i) ==
    LET a == i + Len(comment_start_open)
        q == IndexFrom(s, a, "\"")
        b == q + Len(comment_start_data)
        r == IndexFrom(s, b, "\"")
    IN  IF /\ HasAt(s, i, comment_start_open)
           /\ q > 0
           /\ IsDigits(SubSeq(s, a, q - 1))
           /\ HasAt(s, q, comment_start_data)
           /\ r > 0
           /\ HasAt(s, r, marker_close)
        THEN [ ok |-> TRUE, id |-> int(SubSeq(s, a, q - 1)),
               data |-> unescape(SubSeq(s, b, r - 1)),
               next |-> r + Len(marker_close) ]
        ELSE NoTag

\* the comment-end tag that begins at position i of s, if there is one
EndTagAt(s, i) ==
    LET a == i + Len(comment_end_open)
        q == IndexFrom(s, a, "\"")
    IN  IF /\ HasAt(s, i, comment_end_open)
           /\ q > 0
           /\ IsDigits(SubSeq(s, a, q - 1))
           /\ HasAt(s, q, marker_close)
        THEN [ ok |-> TRUE, id |-> int(SubSeq(s, a, q - 1)),
               data |-> << >>, next |-> q + Len(marker_close) ]
        ELSE NoTag

\* a tag found in the output: its kind, id, body and the number of text
\* characters in front of it
TagEvent(kind, id, data, at) ==
    [ kind |-> kind, id |-> id, data |-> data, at |-> at ]

\* s from position i on with the tags taken out, and the tags in the order
\* they are met
RECURSIVE ParseTags(_, _, _, _)
ParseTags(s, i, clean, events) ==
    IF i > Len(s) THEN [ text |-> clean, events |-> events ]
    ELSE LET st == StartTagAt(s, i)
             en == EndTagAt(s, i)
         IN  IF st.ok
             THEN ParseTags(s, st.next, clean,
                            Append(events, TagEvent("start", st.id, st.data,
                                                    Len(clean))))
             ELSE IF en.ok
             THEN ParseTags(s, en.next, clean,
                            Append(events, TagEvent("end", en.id, en.data,
                                                    Len(clean))))
             ELSE ParseTags(s, i + 1, Append(clean, s[i]), events)

\* the output of the formatter, read back
Parsed == ParseTags(output.text, 1, << >>, << >>)

\* XmlFormatter.format has run on a record of comment_extractor.py that has
\* text and comments
XmlFormatted ==
    /\ pc = "formatted"
    /\ formatter.class = "XmlFormatter"
    /\ program = "comment_extractor"
    /\ ~IsEmptyText(json_data.essay_text)
    /\ json_data.comments # << >>

\* the text has a tag of the formatter in it
ContainsTag(text) ==
    \E i \in 1 .. Len(text) : StartTagAt(text, i).ok \/ EndTagAt(text, i).ok

\* the tags read back are one start and one end tag per comment, numbered
\* by the index of the comment, at its start and end, with its body
RoundTrip ==
    /\ output.raised = "None"
    /\ Parsed.text = json_data.essay_text
    /\ Len(Parsed.events) = 2 * Len(json_data.comments)
    /\ \A i \in 1 .. Len(json_data.comments) :
           \E j, k \in 1 .. Len(Parsed.events) :
               /\ Parsed.events[j] =
                      TagEvent("start", i - 1, json_data.comments[i].data,
                               json_data.comments[i].start)
               /\ Parsed.events[k] =
                      TagEvent("end", i - 1, << >>,
                               json_data.comments[i]["end"])

-----------------------------------------------------------------------------
(* C14: round trip of XmlFormatter.format: for every record with non-empty *)
(* text and a non-empty comment list with 0 <= start <= end <= len(text),  *)
(* taking the tags out of the output gives the text back unchanged, and    *)
(* the start and end tags paired by id give back the (start, end, body)    *)
(* of every comment.                                                       *)
C14_XmlRoundTrip == XmlFormatted => RoundTrip

\* the round trip of the records whose text has no tag of the formatter in it
C14_XmlRoundTripOfTagFreeText ==
    (XmlFormatted /\ ~ContainsTag(json_data.essay_text)) => RoundTrip

\* two comments at one offset, one of them empty, with a body of entities
C14_Witness ==
    /\ XmlFormatted
    /\ Len(json_data.comments) = 2
    /\ json_data.comments[1].start = json_data.comments[1]["end"]
    /\ json_data.comments[2].start = json_data.comments[1].start
    /\ json_data.comments[2]["end"] > json_data.comments[2].start
    /\ json_data.comments[1].data = << "<", "&", ">", "\"", "'" >>
    /\ RoundTrip

-----------------------------------------------------------------------------
(* C15: in the output of XmlFormatter.format the tags come in              *)
(* non-decreasing order of their text offset and, at one offset, every     *)
(* end tag comes before every start tag; and so the start tag of every     *)
(* comment comes before its own end tag.  (Stated for texts that hold no   *)
(* tag themselves, so that the tags read back are the inserted ones.)      *)

\* XmlFormatter.format has run on a record whose text has no tag in it
XmlFormattedTagFree == XmlFormatted /\ ~ContainsTag(json_data.essay_text)

\* offsets never go down along the output, and no start tag is in front of
\* an end tag at its own offset
TagsInOffsetOrder ==
    \A j, k \in 1 .. Len(Parsed.events) :
        j < k =>
            /\ Parsed.events[j].at <= Parsed.events[k].at
            /\ Parsed.events[j].at = Parsed.events[k].at =>
                   ~(Parsed.events[j].kind = "start"
                         /\ Parsed.events[k].kind = "end")

\* the start tag of the i-th comment is in front of its end tag
StartBeforeEnd(i) ==
    \E j, k \in 1 .. Len(Parsed.events) :
        /\ j < k
        /\ Parsed.events[j].kind = "start" /\ Parsed.events[j].id = i - 1
        /\ Parsed.events[k].kind = "end" /\ Parsed.events[k].id = i - 1

\* the end tag of the i-th comment is in front of its start tag
EndBeforeStart(i) ==
    \E j, k \in 1 .. Len(Parsed.events) :
        /\ j < k
        /\ Parsed.events[j].kind = "end" /\ Parsed.events[j].id = i - 1
        /\ Parsed.events[k].kind = "start" /\ Parsed.events[k].id = i - 1

C15_TagsOrderedStartBeforeOwnEnd ==
    XmlFormattedTagFree =>
        /\ TagsInOffsetOrder
        /\ \A i \in 1 .. Len(json_data.comments) : StartBeforeEnd(i)

\* C15 as the code has it: the order of the tags holds; the start tag of a
\* comment comes before its own end tag when start < end, and after it when
\* start = end
C15_TagsOrderedEmptySpanEndsFirst ==
    XmlFormattedTagFree =>
        /\ TagsInOffsetOrder
        /\ \A i \in 1 .. Len(json_data.comments) :
               IF json_data.comments[i].start < json_data.comments[i]["end"]
               THEN StartBeforeEnd(i) /\ ~EndBeforeStart(i)
               ELSE EndBeforeStart(i) /\ ~StartBeforeEnd(i)

\* an empty comment at the offset where another comment ends
C15_Witness ==
    /\ XmlFormattedTagFree
    /\ Len(json_data.comments) = 2
    /\ json_data.comments[1].start = json_data.comments[1]["end"]
    /\ json_data.comments[2].start < json_data.comments[2]["end"]
    /\ json_data.comments[2]["end"] = json_data.comments[1].start
    /\ EndBeforeStart(1)
    /\ StartBeforeEnd(2)

-----------------------------------------------------------------------------
(* Taking the highlight spans and the tooltips out of the HTML output.     *)

\* the output between the page head and "\n</body>\n</html>"
HtmlBody ==
    SubSeq(output.text, Len(html_template) + 1,
           Len(output.text) - Len(html_end))

\* s from position i on without the opening tags of the highlight spans and
\* without the tooltips, and the tooltips in the order they are met
RECURSIVE StripSpans(_, _, _, _)
StripSpans(s, i, clean, tooltips) ==
    IF i > Len(s) THEN [ text |-> clean, tooltips |-> tooltips ]
    ELSE IF HasAt(s, i, span_highlighted)
    THEN StripSpans(s, i + Len(span_highlighted), clean, tooltips)
    ELSE IF HasAt(s, i, span_tooltip)
    THEN LET from == i + Len(span_tooltip) - 1
             close == Find(s, span_close, from)
         IN  IF close < 0
             THEN StripSpans(s, i + 1, Append(clean, s[i]), tooltips)
             ELSE StripSpans(s, close + Len(span_close) + 1, clean,
                             Append(tooltips, Slice(s, from, close)))
    ELSE StripSpans(s, i + 1, Append(clean, s[i]), tooltips)

Stripped == StripSpans(HtmlBody, 1, << >>, << >>)

\* HtmlFormatter.format or json_to_html has run on a record of src/main.py
\* that has text and comments
HtmlFormatted ==
    /\ pc = "formatted"
    /\ formatter.class \in { "HtmlFormatter", "json_to_html" }
    /\ program = "main"
    /\ ~IsEmptyText(json_data.revised_essay)
    /\ json_data.comments # << >>

\* the tooltips are the bodies of the comments, taken in some order in which
\* the starts do not go down
TooltipsInStartOrder ==
    /\ Len(Stripped.tooltips) = Len(json_data.comments)
    /\ \E order \in [ 1 .. Len(json_data.comments) ->
                          1 .. Len(json_data.comments) ] :
           /\ \A i, j \in DOMAIN order : i # j => order[i] # order[j]
           /\ \A i, j \in DOMAIN order :
                  i < j => json_data.comments[order[i]].start
                               <= json_data.comments[order[j]].start
           /\ \A i \in DOMAIN order :
                  Stripped.tooltips[i] =
                      _process_text(json_data.comments[order[i]].comment_text)

\* taken in the order of the sort, every comment starts at or after the end
\* of the one before it
SpansInSequence ==
    LET sorted == SortedByStart(json_data.comments)
    IN  \A i \in 1 .. (Len(sorted) - 1) :
            sorted[i]["end"] <= sorted[i + 1].start

-----------------------------------------------------------------------------
(* C16: HtmlFormatter.format and json_to_html take the comments in         *)
(* ascending start order and, for every non-empty text and non-empty       *)
(* comment list in any order, overlapping and nested spans included, the   *)
(* body of the output without the highlight spans and tooltips is the      *)
(* text with its newlines turned into breaks, every character once.        *)
C16_HtmlSplicePreservesText ==
    HtmlFormatted =>
        /\ output.raised = "None"
        /\ TooltipsInStartOrder
        /\ Stripped.text = _process_text(json_data.revised_essay)

\* the same for the records whose spans follow one another
C16_HtmlSpliceOfSpansInSequence ==
    (HtmlFormatted /\ SpansInSequence) =>
        /\ output.raised = "None"
        /\ TooltipsInStartOrder
        /\ Stripped.text = _process_text(json_data.revised_essay)

-----------------------------------------------------------------------------
(* C17: FormatterFactory.get_formatter(name) returns a formatter instance  *)
(* for every name of get_valid_formats(), which are 'json' and 'html',     *)
(* and raises ValueError, and nothing else, exactly for the other names.   *)
C17_FactoryReturnsOrRaisesValueError ==
    /\ get_valid_formats = { "json", "html" }
    /\ pc = "factory" =>
           /\ formatter.raised \in { "None", "ValueError" }
           /\ formatter.name \in get_valid_formats <=>
                  (formatter.raised = "None" /\ formatter.class # "None")
           /\ formatter.name \notin get_valid_formats <=>
                  formatter.raised = "ValueError"

\* what does hold: 'html' gives an HtmlFormatter, a name outside the table
\* gives ValueError
C17_FactoryHtmlAndUnknownNames ==
    pc = "factory" =>
        /\ formatter.name = "html" =>
               (formatter.raised = "None" /\ formatter.class = "HtmlFormatter")
        /\ formatter.name \notin get_valid_formats <=>
               formatter.raised = "ValueError"

-----------------------------------------------------------------------------
(* C18: the dict process_document of src/comment_extractor.py returns can  *)
(* be handed to the formatters: every key HtmlFormatter.format and         *)
(* XmlFormatter.format read from it and from its comments is a key that    *)
(* process_document and Comment.get_dict write, so that formatting the     *)
(* result of a successful extraction never fails on a missing key.         *)

\* a formatter class has formatted the result of a successful extraction of
\* src/comment_extractor.py
FormattedExtraction ==
    /\ pc = "formatted"
    /\ program = "comment_extractor"
    /\ formatter.class \in { "HtmlFormatter", "XmlFormatter" }
    /\ json_data # EmptyResult

C18_FormattersReadWrittenKeys ==
    FormattedExtraction => output.raised = "None"

\* what does hold: XmlFormatter reads the keys of setting.py, which are the
\* keys written
C18_XmlFormatterReadsWrittenKeys ==
    (FormattedExtraction /\ formatter.class = "XmlFormatter") =>
        output.raised = "None"

-----------------------------------------------------------------------------
(* C19: the first paragraph element of the walk adds nothing; every later  *)
(* one adds exactly one separator to the flattened text and to each range  *)
(* that is open at that moment, and to no range that is closed or not yet  *)
(* opened.  (For documents that open and close each id at most once.)      *)

\* the step walks a paragraph element of such a document
ParagraphStep ==
    /\ pc = "walk"
    /\ doc' = Append(doc, Paragraph)
    /\ OpenedAndClosedAtMostOnce(doc)

\* the range as it is after one more separator
WithSeparator(hr) == [ hr EXCEPT !.texts = Append(@, new_line) ]

C19_WitnessClosed ==
    /\ pc = "walk"
    /\ doc = << RangeStart(1), RangeEnd(1), Paragraph, Paragraph >>
    /\ full_text = << "\n" >>
    /\ get_text(comment_id_to_range[1]) = << >>

-----------------------------------------------------------------------------
(* C20: a range-close element takes its id out of the open list only if    *)
(* the id is open; for an id that is not open (never opened, or opened     *)
(* and closed already) it does nothing: no error is raised and the open    *)
(* list, the range map and the flattened text are as they were.            *)

\* the step walks the range-close element of id
RangeEndStep(id) ==
    /\ pc = "walk"
    /\ doc' = Append(doc, RangeEnd(id))

\* nothing is raised, and nothing but the open list can have changed
OnlyOpenListTouched ==
    /\ pc' = "walk"
    /\ full_text' = full_text
    /\ comment_id_to_range' = comment_id_to_range
    /\ is_first_paragraph' = is_first_paragraph

C20_CloseOfIdNotOpenIsNoOp ==
    [][ \A id \in CommentIds :
            RangeEndStep(id) =>
                /\ OnlyOpenListTouched
                /\ current_range_ids' =
                       IF InList(id, current_range_ids)
                       THEN ListRemove(current_range_ids, id)
                       ELSE current_range_ids ]_vars

\* what does hold: closing an open id removes it, and closing an id that was
\* never opened does nothing
C20_CloseOfOpenOrNeverOpenedId ==
    [][ \A id \in CommentIds :
            (RangeEndStep(id)
                 /\ (InList(id, current_range_ids)
                         \/ id \notin DOMAIN comment_id_to_range)) =>
                /\ OnlyOpenListTouched
                /\ current_range_ids' =
                       IF InList(id, current_range_ids)
                       THEN ListRemove(current_range_ids, id)
                       ELSE current_range_ids ]_vars

(***************************************************************************)
(* C21: process_document never returns annotations without section text.   *)
(* In every dict it returns, in either program, a non-empty comment list   *)
(* comes with a non-empty text; and when the stripped text of the located  *)
(* section is empty the dict is the empty result (text None, no comments), *)
(* also when the reconciler had produced comments.                         *)
(***************************************************************************)

\* text = fb_section.stripped_text if fb_section else "", of either program
SectionText ==
    IF program = "main"
    THEN IF legacy_section = NoSection THEN << >>
         ELSE legacy_section.stripped_text
    ELSE IF fb_section = NoSection THEN << >>
         ELSE fb_section.stripped_text

C21_NoCommentsWithoutText ==
    Returned =>
        /\ result.comments # << >> =>
               /\ TextOf(result) # None
               /\ TextOf(result) # << >>
        /\ SectionText = << >> =>
               /\ result = InitialResult(program)
               /\ TextOf(result) = None
               /\ result.comments = << >>

\* comment_extractor.py has returned the empty result for a readable file
\* whose comments were reconciled and whose section text strips to nothing
C21_Witness ==
    /\ pc = "returned"
    /\ program = "comment_extractor"
    /\ archive = "ok"
    /\ comments # << >>
    /\ fb_section # NoSection
    /\ fb_section.stripped_text = << >>
    /\ result = EmptyResult

\* the same in src/main.py, with both tokens found and nothing between them
C21_WitnessLegacy ==
    /\ pc = "returned"
    /\ program = "main"
    /\ archive = "ok"
    /\ comments # << >>
    /\ legacy_section # NoSection
    /\ legacy_section.stripped_text = << >>
    /\ result = LegacyEmptyResult

\* a dict with text and comments has been returned
C21_WitnessFull ==
    /\ pc = "returned"
    /\ result.comments # << >>
    /\ TextOf(result) = SectionText
    /\ SectionText # << >>

====
